---------------------------- MODULE Spec2Model ----------------------------
(***************************************************************************)
(* Model of the logrus hook for Amazon CloudWatch Logs (package            *)
(* cloudwatchhook, src/go.mod lines 12-364).                               *)
(*                                                                         *)
(* Processes:                                                              *)
(*   - the caller of NewCloudWatchLogsHook (one atomic action: until it    *)
(*     returns nobody holds the hook, so nothing can interleave with it in *)
(*     an observable way);                                                 *)
(*   - the goroutines that call Write (set Writers), one step per          *)
(*     statement that touches shared state;                                *)
(*   - the putBatch goroutine (one step per case of its select);           *)
(*   - one sendBatch goroutine per "go h.sendBatch(batch)".                *)
(* The CloudWatch Logs service is the environment: a PutLogEvents call     *)
(* succeeds or fails nondeterministically and a success returns a fresh    *)
(* sequence token.                                                         *)
(*                                                                         *)
(* Shared memory is interleaved statement by statement (h.err is read and  *)
(* written without the mutex by Write, lines 181-183).                     *)
(***************************************************************************)
EXTENDS Integers, Sequences, FiniteSets, TLC

(***************************************************************************)
(* Bounds of the model.                                                    *)
(***************************************************************************)
\* total number of Write calls in a run
MaxWrites == 2
\* total number of Write calls in a run of the one-writer specification
MaxSoloWrites == 4
\* total number of Write calls in a run of the fair specification
MaxLiveWrites == 2
\* capacity of h.ch; the code makes it 10000 (line 87), scaled down here
QueueCap == 1
\* event count at which putBatch flushes; 10000 in the code (line 325),
\* scaled down here
MaxBatchEvents == 2
\* calls of Write through Fire in FireSpec
MaxFireWrites == 2
\* calls of Write by the one caller of BatchSpec
MaxBatchWrites == 3
\* sendBatch goroutines started with an empty batch and not yet run
MaxIdleSenders == 1
\* groups or streams on one page of a Describe... answer of the service
PageSize == 1

(***************************************************************************)
(* Program constants.                                                      *)
(***************************************************************************)
\* line 325: size+messageSize > 1048576
MaxBatchBytes == 1048576
\* line 324: len(*p.Message) + 26
EventOverhead == 26

\* goroutines calling Write
Writers == {1, 2}
\* message lengths: a short message and a message that alone exceeds the
\* byte limit (1048551 + 26 = 1048577)
MsgLens == {1, 1048551}
\* values of the WithBatchDuration option (0: option not given)
Durations == {-1, 0, 1}
\* names are sequences of characters: the group and the stream of the hook,
\* and a longer name that starts with each of them
GroupName == <<"g">>
StreamName == <<"s">>
\* the names the service may hold, in the order in which it lists them
GroupNames == <<GroupName, <<"g", "x">>>>
StreamNames == <<StreamName, <<"s", "x">>>>
\* values of the options of the log group: retention days, KMS key, tags
RetentionChoices == {0, 7}
KmsChoices == {"", "key"}
TagChoices == {{}, {"tag"}}
\* the levels of logrus
AllLevels == {"panic", "fatal", "error", "warning", "info", "debug", "trace"}
\* where NewCloudWatchLogsHook can meet an error of the SDK
FailPoints == {"none", "config", "findGroup", "createGroup", "findStream",
               "createStream", "refindStream"}

VARIABLES
    phase,              \* "unbuilt", "ready" (hook returned), "failed" (nil, err returned)
    logFrequency,       \* h.logFrequency
    chMade,             \* h.ch != nil
    ch,                 \* contents of the channel h.ch
    nextSequenceToken,  \* h.nextSequenceToken (0 is nil)
    err,                \* h.err (0 is nil, n > 0 the error of request n)
    mutex,              \* h.mutex: owner, NoOwner when unlocked
    pbRunning,          \* the putBatch goroutine exists
    batch,              \* putBatch's local batch
    size,               \* putBatch's local size
    senders,            \* sendBatch goroutines with a non-empty batch
    idleSenders,        \* sendBatch goroutines with an empty batch, not yet locked
    pc,                 \* per writer: position in Write
    ev,                 \* per writer: the event of the current call
    lastErr,            \* per writer: local lastErr (line 182)
    res,                \* per writer: the (int, error) being returned
    options,            \* h.retentionDays, h.kmsKeyID, h.tags
    svc,                \* the service: groups, streams of the hook's group, and
                        \* the upload sequence token of the hook's stream
    requests,           \* history: the PutLogEvents requests in order of issue
    nWrites,            \* history: number of Write calls so far
    nAssembled,         \* history: number of non-empty batches handed to sendBatch
    tokenAtNew,         \* history: the stream's token when the hook was built
    owed,               \* history: latest upload error no Write has returned yet
    expected,           \* history: owed when the current Write call began
    returned,           \* history: the latest upload error a Write has returned
    calls,              \* history: the calls NewCloudWatchLogsHook made to the service
    dequeued,           \* history: the events putBatch has taken from h.ch
    fired               \* the call of Fire under way, or the last one made

vars == <<phase, logFrequency, chMade, ch, nextSequenceToken, err, mutex,
          pbRunning, batch, size, senders, idleSenders, pc, ev, lastErr, res,
          options, svc, requests, nWrites, nAssembled, tokenAtNew, owed,
          expected, returned, calls, dequeued, fired>>

hookVars == <<phase, logFrequency, chMade, pbRunning, options, svc, tokenAtNew>>
putBatchVars == <<batch, size>>
writerVars == <<pc, ev, lastErr, res, nWrites>>

NoOwner == <<"none", 0>>
NoEvent == [id |-> 0, len |-> 0]
NoResult == [n |-> 0, err |-> 0]
NotFired == [level |-> "none", parsed |-> FALSE, writes |-> 0, done |-> FALSE, err |-> 0]

(***************************************************************************)
(* Pure helpers.                                                           *)
(***************************************************************************)
\* line 324: messageSize := len(*p.Message) + 26
MessageSize(p) == p.len + EventOverhead

\* line 325: the condition of the early flush
NeedsFlush(sz, messageSize, n) ==
    sz + messageSize > MaxBatchBytes \/ n = MaxBatchEvents

\* variant of Batching: any duration that is given turns batching on
BatchingNonZero(freq) == freq # 0

\* line 86: batching is on when the duration is positive
Batching(freq) == freq > 0

\* variant of ChanHasRoom: a channel without a capacity
ChanAlwaysRoom(q) == TRUE

\* line 180: a send on the buffered channel proceeds when there is room
ChanHasRoom(q) == Len(q) < QueueCap

\* variant of Enqueued: the cached error is looked at first, and the event
\* of the call that is going to return it is not queued
EnqueuedUnlessError(q, event) == IF err # 0 THEN q ELSE Append(q, event)

\* line 180: h.ch <- event, before the cached error is looked at (line 181)
Enqueued(q, event) == Append(q, event)

\* variant of CanLock: Lock never waits
CanLockAlways(m) == TRUE

\* lines 190, 343: sync.Mutex.Lock returns only when the mutex is unlocked
CanLock(m) == m = NoOwner

\* variant of TokenAfter: the result of the upload is never stored
TokenAfterNever(cur, ok, next) == cur

\* variant of TokenAfter: result.NextSequenceToken is stored after a failure
\* too, when the result carries none
TokenAfterAlways(cur, ok, next) == IF ok THEN next ELSE 0

\* lines 199-202 and 359-363: the token is replaced after a success only
TokenAfter(cur, ok, next) == IF ok THEN next ELSE cur

\* variant of BatchAfterFlush: the batch is not reset
BatchKept(b) == b

\* lines 327-328 and 335-336: batch = nil after handing it to sendBatch
BatchAfterFlush(b) == << >>

\* variant of FlushedBatch: the message that forces the flush goes with it
FlushedWithTrigger(b, p) == Append(b, p)

\* line 326: the batch handed to sendBatch before the message is appended
\* (line 330)
FlushedBatch(b, p) == b

\* variant of NothingToSend: every batch is sent
NothingToSendNever(b) == FALSE

\* variant of NothingToSend: a batch of one event is not sent either
NothingToSendShort(b) == Len(b) <= 1

\* line 347: sendBatch has nothing to send
NothingToSend(b) == Len(b) = 0

RECURSIVE BatchBytes(_)
BatchBytes(b) == IF b = << >> THEN 0 ELSE MessageSize(Head(b)) + BatchBytes(Tail(b))

EventIds(b) == {b[i].id : i \in 1..Len(b)}

(***************************************************************************)
(* The service.                                                            *)
(***************************************************************************)
\* a fresh NextSequenceToken
FreshToken == svc.token + 1

\* PutLogEvents: the request as issued (lines 192-198, 352-358)
Request(by, seq, events) ==
    [by |-> by, seq |-> seq, events |-> events, token |-> nextSequenceToken,
     status |-> "inflight", next |-> 0]

\* the answer of the service to the request in flight (the last one issued
\* by this caller)
Answer(i, ok) ==
    [requests EXCEPT ![i].status = IF ok THEN "ok" ELSE "failed",
                     ![i].next = IF ok THEN FreshToken ELSE 0]

ReqOf(by) == CHOOSE i \in 1..Len(requests) :
                 requests[i].by = by /\ requests[i].status = "inflight"


(***************************************************************************)
(* Construction (lines 51-101, 206-315).                                   *)
(***************************************************************************)
\* the options as the hook is made (lines 67-78) and after the option
\* functions have run (lines 81-83, 105-133)
Options(freq, days, kms, tags) ==
    [logFrequency |-> freq, retentionDays |-> days, kmsKeyID |-> kms, tags |-> tags]

\* a group as the service makes it: it never expires unless a retention
\* policy is put on it
Group(name, kms, tags) ==
    [name |-> name, retentionDays |-> 0, kmsKeyID |-> kms, tags |-> tags]

HasPrefix(name, prefix) ==
    /\ Len(prefix) <= Len(name)
    /\ SubSeq(name, 1, Len(prefix)) = prefix

\* the pages of a Describe... answer: the entries of listing that pass,
\* PageSize to a page; every page but the last carries a NextToken
RECURSIVE PagesOf(_)
PagesOf(found) ==
    IF Len(found) <= PageSize THEN <<found>>
    ELSE <<SubSeq(found, 1, PageSize)>> \o PagesOf(SubSeq(found, PageSize + 1, Len(found)))

\* DescribeLogGroups with LogGroupNamePrefix (lines 267-270)
DescribeLogGroups(s, prefix) ==
    PagesOf(SelectSeq(GroupNames,
                      LAMBDA n : HasPrefix(n, prefix) /\ \E g \in s.groups : g.name = n))

\* DescribeLogStreams with LogGroupName and LogStreamNamePrefix (lines 293-297)
DescribeLogStreams(s, prefix) ==
    PagesOf(SelectSeq(StreamNames, LAMBDA n : HasPrefix(n, prefix) /\ n \in s.streams))

\* variant of SameName: a name that starts with the wanted name is taken
SameNameByPrefix(name, wanted) == HasPrefix(name, wanted)

\* lines 276 and 303: aws.ToString(...) == h.group, == h.stream
SameName(name, wanted) == name = wanted

\* lines 266-285 and 292-313: the loop over the pages; the first entry of
\* the wanted name ends it, the last page (no NextToken) ends it too
RECURSIVE ScanPages(_, _, _)
ScanPages(pages, i, wanted) ==
    IF i > Len(pages) THEN << >>
    ELSE LET hits == SelectSeq(pages[i], LAMBDA n : SameName(n, wanted))
         IN  IF hits # << >> THEN <<Head(hits)>>
             ELSE ScanPages(pages, i + 1, wanted)

\* lines 264-287: the name of the group that was found, << >> when none
findLogGroup(s) == ScanPages(DescribeLogGroups(s, GroupName), 1, GroupName)

\* lines 218-227: the input of CreateLogGroup: the name, the tags when there
\* are some, the KMS key when there is one
CreateLogGroupInput(opts) == Group(GroupName, opts.kmsKeyID, opts.tags)

\* a call to the service and whether it was answered without an error
Call(op, ok) == [op |-> op, ok |-> ok]

\* lines 207-232: nothing to do when the group exists, else create it
createLogGroup(s, opts, failAt) ==
    IF failAt = "findGroup"
    THEN [err |-> TRUE, svc |-> s, calls |-> <<Call("DescribeLogGroups", FALSE)>>]
    ELSE IF findLogGroup(s) # << >>
    THEN [err |-> FALSE, svc |-> s, calls |-> <<Call("DescribeLogGroups", TRUE)>>]
    ELSE IF failAt = "createGroup"
    THEN [err |-> TRUE, svc |-> s,
          calls |-> <<Call("DescribeLogGroups", TRUE), Call("CreateLogGroup", FALSE)>>]
    ELSE [err |-> FALSE,
          svc |-> [s EXCEPT !.groups = @ \cup {CreateLogGroupInput(opts)}],
          calls |-> <<Call("DescribeLogGroups", TRUE), Call("CreateLogGroup", TRUE)>>]

\* the UploadSequenceToken of a stream the service lists: that of the
\* hook's stream is in s.token, another stream was never written to
UploadSequenceToken(s, name) == IF name = StreamName THEN s.token ELSE 0

\* variant of findLogStream: the token of the stream is not stored
findLogStreamNoToken(s, tok) ==
    LET hit == ScanPages(DescribeLogStreams(s, StreamName), 1, StreamName)
    IN  [found |-> hit # << >>, token |-> tok]

\* lines 290-315: when the stream is found its UploadSequenceToken is stored
\* in h.nextSequenceToken (line 304), else the field is left alone
findLogStream(s, tok) ==
    LET hit == ScanPages(DescribeLogStreams(s, StreamName), 1, StreamName)
    IN  [found |-> hit # << >>,
         token |-> IF hit # << >> THEN UploadSequenceToken(s, Head(hit)) ELSE tok]

\* lines 235-261: find the stream, else create it and find it again
createLogStream(s, tok, failAt) ==
    IF failAt = "findStream"
    THEN [err |-> TRUE, svc |-> s, token |-> tok,
          calls |-> <<Call("DescribeLogStreams", FALSE)>>]
    ELSE IF findLogStream(s, tok).found
    THEN [err |-> FALSE, svc |-> s, token |-> findLogStream(s, tok).token,
          calls |-> <<Call("DescribeLogStreams", TRUE)>>]
    ELSE IF failAt = "createStream"
    THEN [err |-> TRUE, svc |-> s, token |-> tok,
          calls |-> <<Call("DescribeLogStreams", TRUE), Call("CreateLogStream", FALSE)>>]
    ELSE LET created == [s EXCEPT !.streams = @ \cup {StreamName}, !.token = 0]
             made == <<Call("DescribeLogStreams", TRUE), Call("CreateLogStream", TRUE)>>
         IN  IF failAt = "refindStream"
             THEN [err |-> TRUE, svc |-> created, token |-> tok,
                   calls |-> Append(made, Call("DescribeLogStreams", FALSE))]
             ELSE [err |-> FALSE, svc |-> created,
                   token |-> findLogStream(created, tok).token,
                   calls |-> Append(made, Call("DescribeLogStreams", TRUE))]

\* the calls to the service that NewCloudWatchLogsHook makes
CallsOfNew(opts, failAt) ==
    IF failAt = "config" THEN << >>
    ELSE LET g == createLogGroup(svc, opts, failAt)
         IN  IF g.err THEN g.calls
             ELSE g.calls \o createLogStream(g.svc, 0, failAt).calls

\* lines 51-101
NewCloudWatchLogsHook(opts, failAt) ==
    /\ phase = "unbuilt"
    /\ UNCHANGED <<ch, err, mutex, putBatchVars, senders, idleSenders,
                   writerVars, requests, nAssembled>>
    /\ IF failAt = "config"
       THEN \* lines 64-66: no hook is made
            /\ phase' = "failed"
            /\ UNCHANGED <<logFrequency, chMade, pbRunning, options,
                           nextSequenceToken, svc, tokenAtNew>>
       ELSE LET g == createLogGroup(svc, opts, failAt)
                s == createLogStream(g.svc, 0, failAt)
            IN  \* lines 81-83
                /\ logFrequency' = opts.logFrequency
                /\ options' = [retentionDays |-> opts.retentionDays,
                               kmsKeyID |-> opts.kmsKeyID, tags |-> opts.tags]
                \* lines 86-89
                /\ chMade' = Batching(opts.logFrequency)
                /\ pbRunning' = Batching(opts.logFrequency)
                /\ tokenAtNew' = IF g.err THEN 0 ELSE s.svc.token
                /\ IF g.err
                   THEN /\ phase' = "failed"
                        /\ svc' = g.svc
                        /\ nextSequenceToken' = 0
                   ELSE /\ phase' = IF s.err THEN "failed" ELSE "ready"
                        /\ svc' = s.svc
                        /\ nextSequenceToken' = s.token

(***************************************************************************)
(* Write (lines 172-204).                                                  *)
(***************************************************************************)
Busy(w) == pc[w] # "idle"

\* lines 173-179 and 188: the call begins; the event is built and the mode
\* decides the path
Write_Call(w, len, cap) ==
    /\ phase = "ready"
    /\ pc[w] = "idle"
    /\ nWrites < cap
    /\ nWrites' = nWrites + 1
    /\ ev' = [ev EXCEPT ![w] = [id |-> nWrites + 1, len |-> len]]
    /\ pc' = [pc EXCEPT ![w] = IF chMade THEN "send" ELSE "lock"]
    /\ UNCHANGED <<hookVars, ch, nextSequenceToken, err, mutex, putBatchVars,
                   senders, idleSenders, lastErr, res, requests, nAssembled>>

\* line 180: h.ch <- event (blocks while the channel is full)
Write_Send(w) ==
    /\ pc[w] = "send"
    /\ ChanHasRoom(ch)
    /\ ch' = Enqueued(ch, ev[w])
    /\ pc' = [pc EXCEPT ![w] = "check"]
    /\ UNCHANGED <<hookVars, nextSequenceToken, err, mutex, putBatchVars, senders,
                   idleSenders, ev, lastErr, res, requests, nWrites, nAssembled>>

\* line 181: if h.err != nil; line 186 otherwise
Write_Check(w) ==
    /\ pc[w] = "check"
    /\ IF err # 0
       THEN /\ pc' = [pc EXCEPT ![w] = "load"]
            /\ res' = res
       ELSE /\ pc' = [pc EXCEPT ![w] = "ret"]
            /\ res' = [res EXCEPT ![w] = [n |-> ev[w].len, err |-> 0]]
    /\ UNCHANGED <<hookVars, ch, nextSequenceToken, err, mutex, putBatchVars,
                   senders, idleSenders, ev, lastErr, requests, nWrites,
                   nAssembled>>

\* line 182: lastErr := h.err
Write_Load(w) ==
    /\ pc[w] = "load"
    /\ lastErr' = [lastErr EXCEPT ![w] = err]
    /\ pc' = [pc EXCEPT ![w] = "clear"]
    /\ UNCHANGED <<hookVars, ch, nextSequenceToken, err, mutex, putBatchVars,
                   senders, idleSenders, ev, res, requests, nWrites, nAssembled>>

\* lines 183-184: h.err = nil; return 0, fmt.Errorf("%v", *lastErr).
\* A nil lastErr makes the dereference panic: the call never returns.
Write_Clear(w) ==
    /\ pc[w] = "clear"
    /\ err' = 0
    /\ IF lastErr[w] = 0
       THEN /\ pc' = [pc EXCEPT ![w] = "panic"]
            /\ res' = res
       ELSE /\ pc' = [pc EXCEPT ![w] = "ret"]
            /\ res' = [res EXCEPT ![w] = [n |-> 0, err |-> lastErr[w]]]
    /\ UNCHANGED <<hookVars, ch, nextSequenceToken, mutex, putBatchVars, senders,
                   idleSenders, ev, lastErr, requests, nWrites, nAssembled>>

\* lines 190-198: h.mutex.Lock(), then the request is built from the stored
\* token and issued (nothing else can touch the token in between)
Write_Put(w) ==
    /\ pc[w] = "lock"
    /\ CanLock(mutex)
    /\ mutex' = <<"write", w>>
    /\ requests' = Append(requests, Request(<<"write", w>>, 0, <<ev[w]>>))
    /\ pc' = [pc EXCEPT ![w] = "resp"]
    /\ UNCHANGED <<hookVars, ch, nextSequenceToken, err, putBatchVars, senders,
                   idleSenders, ev, lastErr, res, nWrites, nAssembled>>

\* lines 198-203 and the deferred Unlock of line 191
Write_Resp(w, ok) ==
    /\ pc[w] = "resp"
    /\ LET i == ReqOf(<<"write", w>>)
       IN  /\ requests' = Answer(i, ok)
           /\ res' = [res EXCEPT ![w] = IF ok THEN [n |-> ev[w].len, err |-> 0]
                                               ELSE [n |-> 0, err |-> i]]
    /\ nextSequenceToken' = TokenAfter(nextSequenceToken, ok, FreshToken)
    /\ svc' = IF ok THEN [svc EXCEPT !.token = FreshToken] ELSE svc
    /\ mutex' = NoOwner
    /\ pc' = [pc EXCEPT ![w] = "ret"]
    /\ UNCHANGED <<phase, logFrequency, chMade, pbRunning, options, tokenAtNew,
                   ch, err, putBatchVars, senders, idleSenders, ev, lastErr,
                   nWrites, nAssembled>>

\* the call returns res[w] to its caller
Write_Return(w) ==
    /\ pc[w] = "ret"
    /\ pc' = [pc EXCEPT ![w] = "idle"]
    /\ ev' = [ev EXCEPT ![w] = NoEvent]
    /\ lastErr' = [lastErr EXCEPT ![w] = 0]
    /\ res' = [res EXCEPT ![w] = NoResult]
    /\ UNCHANGED <<hookVars, ch, nextSequenceToken, err, mutex, putBatchVars,
                   senders, idleSenders, requests, nWrites, nAssembled>>

(***************************************************************************)
(* Fire and Levels (lines 136-169).                                        *)
(***************************************************************************)
\* lines 160-169: the levels the hook asks logrus to call Fire for
Levels == {"panic", "fatal", "error", "warning", "info", "debug"}

\* lines 143-155: the cases of the switch that lead to h.Write
WritesLevel(level) == level \in {"panic", "error", "warning", "info", "debug"}

\* lines 137-156, up to the call of Write: an entry that cannot be formatted
\* returns an error (lines 138-140), a level of the switch calls Write with
\* the line (line 152), any other level returns nil (line 155)
Fire_Call(w, level, parses, len, cap) ==
    /\ phase = "ready"
    /\ pc[w] = "idle"
    /\ IF parses /\ WritesLevel(level)
       THEN /\ Write_Call(w, len, cap)
            /\ fired' = [level |-> level, parsed |-> TRUE, writes |-> 1,
                         done |-> FALSE, err |-> 0]
       ELSE /\ fired' = [level |-> level, parsed |-> parses, writes |-> 0,
                         done |-> TRUE, err |-> 0]
            /\ UNCHANGED <<hookVars, ch, nextSequenceToken, err, mutex,
                           putBatchVars, senders, idleSenders, writerVars,
                           requests, nAssembled>>

\* line 153: return err, the error of Write
Fire_Return(w) ==
    /\ ~fired.done /\ fired.writes > 0
    /\ fired' = [fired EXCEPT !.done = TRUE, !.err = res[w].err]
    /\ Write_Return(w)

(***************************************************************************)
(* putBatch (lines 318-339).                                               *)
(***************************************************************************)
\* "go h.sendBatch(b)": a new goroutine that holds b
GoSendBatch(b) ==
    IF b = << >>
    THEN /\ idleSenders < MaxIdleSenders
         /\ idleSenders' = idleSenders + 1
         /\ UNCHANGED <<senders, nAssembled>>
    ELSE /\ senders' = senders \cup
                {[seq |-> nAssembled + 1, batch |-> b, pc |-> "lock"]}
         /\ nAssembled' = nAssembled + 1
         /\ UNCHANGED idleSenders

\* lines 323-331: case p := <-h.ch
putBatch_Recv ==
    /\ pbRunning
    /\ ch # << >>
    /\ LET p == Head(ch)
           messageSize == MessageSize(p)
       IN  /\ ch' = Tail(ch)
           /\ IF NeedsFlush(size, messageSize, Len(batch))
              THEN /\ GoSendBatch(FlushedBatch(batch, p))
                   /\ batch' = Append(BatchAfterFlush(batch), p)
                   /\ size' = messageSize
              ELSE /\ batch' = Append(batch, p)
                   /\ size' = size + messageSize
                   /\ UNCHANGED <<senders, idleSenders, nAssembled>>
    /\ UNCHANGED <<hookVars, nextSequenceToken, err, mutex, writerVars, requests>>

\* lines 333-336: case <-ticker
putBatch_Tick ==
    /\ pbRunning
    /\ GoSendBatch(batch)
    /\ batch' = BatchAfterFlush(batch)
    /\ size' = 0
    /\ UNCHANGED <<hookVars, ch, nextSequenceToken, err, mutex, writerVars,
                   requests>>

(***************************************************************************)
(* sendBatch (lines 342-364).                                              *)
(***************************************************************************)
SenderAt(s, at) == (senders \ {s}) \cup {[s EXCEPT !.pc = at]}

\* lines 343-364, by a goroutine that holds an empty batch: Lock, return
\* as there is nothing to send, the deferred Unlock; were the batch not
\* turned away it would go out in a request as any other batch does
sendBatch_Idle ==
    /\ idleSenders > 0
    /\ CanLock(mutex)
    /\ idleSenders' = idleSenders - 1
    /\ IF NothingToSend(<< >>)
       THEN UNCHANGED <<requests, nextSequenceToken, err, svc>>
       ELSE \E ok \in BOOLEAN :
               LET i == Len(requests) + 1
               IN  /\ requests' =
                          Append(requests,
                                 [Request(<<"send", 0>>, 0, << >>) EXCEPT
                                     !.status = IF ok THEN "ok" ELSE "failed",
                                     !.next = IF ok THEN FreshToken ELSE 0])
                   /\ err' = IF ok THEN err ELSE i
                   /\ nextSequenceToken' = TokenAfter(nextSequenceToken, ok, FreshToken)
                   /\ svc' = IF ok THEN [svc EXCEPT !.token = FreshToken] ELSE svc
    /\ UNCHANGED <<phase, logFrequency, chMade, pbRunning, options, tokenAtNew,
                   ch, mutex, putBatchVars, senders, writerVars, nAssembled>>

\* lines 343-358, by a goroutine that holds a non-empty batch: Lock; return
\* when there is nothing to send, else build the request from the stored
\* token and issue it (nothing else can touch the token in between)
sendBatch_Put(s) ==
    /\ s.pc = "lock"
    /\ CanLock(mutex)
    /\ IF NothingToSend(s.batch)
       THEN /\ senders' = senders \ {s}
            /\ UNCHANGED <<requests, mutex>>
       ELSE /\ requests' = Append(requests, Request(<<"send", s.seq>>, s.seq, s.batch))
            /\ senders' = SenderAt(s, "resp")
            /\ mutex' = <<"send", s.seq>>
    /\ UNCHANGED <<hookVars, ch, nextSequenceToken, err, putBatchVars, idleSenders,
                   writerVars, nAssembled>>

\* lines 358-363 and the deferred Unlock of line 344
sendBatch_Resp(s, ok) ==
    /\ s.pc = "resp"
    /\ LET i == ReqOf(<<"send", s.seq>>)
       IN  /\ requests' = Answer(i, ok)
           /\ err' = IF ok THEN err ELSE i
    /\ nextSequenceToken' = TokenAfter(nextSequenceToken, ok, FreshToken)
    /\ svc' = IF ok THEN [svc EXCEPT !.token = FreshToken] ELSE svc
    /\ mutex' = NoOwner
    /\ senders' = senders \ {s}
    /\ UNCHANGED <<phase, logFrequency, chMade, pbRunning, options, tokenAtNew,
                   ch, putBatchVars, idleSenders, writerVars, nAssembled>>

(***************************************************************************)
(* Specification.                                                          *)
(***************************************************************************)
\* before NewCloudWatchLogsHook: the group and the stream may exist already;
\* a stream that exists has a sequence token
Unbuilt(services) ==
    /\ phase = "unbuilt"
    /\ logFrequency = 0
    /\ chMade = FALSE
    /\ ch = << >>
    /\ nextSequenceToken = 0
    /\ err = 0
    /\ mutex = NoOwner
    /\ pbRunning = FALSE
    /\ batch = << >>
    /\ size = 0
    /\ senders = {}
    /\ idleSenders = 0
    /\ pc = [w \in Writers |-> "idle"]
    /\ ev = [w \in Writers |-> NoEvent]
    /\ lastErr = [w \in Writers |-> 0]
    /\ res = [w \in Writers |-> NoResult]
    /\ options = [retentionDays |-> 0, kmsKeyID |-> "", tags |-> {}]
    /\ svc \in services
    /\ requests = << >>
    /\ nWrites = 0
    /\ nAssembled = 0
    /\ tokenAtNew = 0
    /\ owed = 0
    /\ expected = 0
    /\ returned = 0
    /\ calls = << >>
    /\ dequeued = << >>
    /\ fired = NotFired

Init ==
    Unbuilt({[groups |-> {Group(GroupName, "", {})}, streams |-> {StreamName},
              token |-> 1],
             [groups |-> {Group(GroupName, "", {})}, streams |-> {}, token |-> 0],
             [groups |-> {}, streams |-> {}, token |-> 0]})

New ==
    \E freq \in Durations, failAt \in FailPoints :
        NewCloudWatchLogsHook(Options(freq, 0, "", {}), failAt)
WriteCall == \E w \in Writers, len \in MsgLens : Write_Call(w, len, MaxWrites)
WriteSend == \E w \in Writers : Write_Send(w)
WriteCheck == \E w \in Writers : Write_Check(w)
WriteLoad == \E w \in Writers : Write_Load(w)
WriteClear == \E w \in Writers : Write_Clear(w)
WritePut == \E w \in Writers : Write_Put(w)
WriteResp == \E w \in Writers, ok \in BOOLEAN : Write_Resp(w, ok)
WriteReturn == \E w \in Writers : Write_Return(w)
SendPut == \E s \in senders : sendBatch_Put(s)
SendResp == \E s \in senders, ok \in BOOLEAN : sendBatch_Resp(s, ok)

\* the history variables of the error hand-over are recorded by SoloSpec
\* only, the calls of the construction by NewSpec only, the events taken
\* from the queue by BatchSpec only, the calls of Fire by FireSpec only
NoHistory == UNCHANGED <<owed, expected, returned, calls, dequeued, fired>>

Next ==
    \/ New /\ NoHistory
    \/ WriteCall /\ NoHistory
    \/ WriteSend /\ NoHistory
    \/ WriteCheck /\ NoHistory
    \/ WriteLoad /\ NoHistory
    \/ WriteClear /\ NoHistory
    \/ WritePut /\ NoHistory
    \/ WriteResp /\ NoHistory
    \/ WriteReturn /\ NoHistory
    \/ putBatch_Recv /\ NoHistory
    \/ putBatch_Tick /\ NoHistory
    \/ sendBatch_Idle /\ NoHistory
    \/ SendPut /\ NoHistory
    \/ SendResp /\ NoHistory

Spec == Init /\ [][Next]_vars

(***************************************************************************)
(* Fair scheduling: the timer keeps ticking and putBatch serves both cases *)
(* of its select (select picks at random among the cases that are ready,   *)
(* so a case that is ready again and again is taken: strong fairness);     *)
(* a sendBatch goroutine that waits for the mutex gets it (sync.Mutex      *)
(* hands the mutex to a starving waiter: strong fairness, since the mutex  *)
(* is free only now and then); PutLogEvents returns.                       *)
(***************************************************************************)
Fairness ==
    /\ SF_vars(putBatch_Recv /\ NoHistory)
    /\ SF_vars(putBatch_Tick /\ NoHistory)
    /\ SF_vars(sendBatch_Idle /\ NoHistory)
    /\ SF_vars(SendPut /\ NoHistory)
    /\ WF_vars(SendResp /\ NoHistory)

(***************************************************************************)
(* One goroutine calls Write, one call after the other, on a hook that     *)
(* batches; the history variables record which upload error is still to be *)
(* returned.                                                               *)
(***************************************************************************)
SoloWriter == CHOOSE w \in Writers : \A v \in Writers : w <= v

SoloNew == NewCloudWatchLogsHook(Options(1, 0, "", {}), "none") /\ NoHistory
SoloWriteCall ==
    /\ \E len \in MsgLens : Write_Call(SoloWriter, len, MaxSoloWrites)
    /\ expected' = owed
    /\ UNCHANGED <<owed, returned, calls, dequeued, fired>>
SoloWriteSend == Write_Send(SoloWriter) /\ NoHistory
SoloWriteCheck == Write_Check(SoloWriter) /\ NoHistory
SoloWriteLoad == Write_Load(SoloWriter) /\ NoHistory
SoloWriteClear == Write_Clear(SoloWriter) /\ NoHistory
SoloWriteReturn ==
    /\ Write_Return(SoloWriter)
    /\ owed' = IF res[SoloWriter].err = owed THEN 0 ELSE owed
    /\ expected' = 0
    /\ returned' = IF res[SoloWriter].err # 0 THEN res[SoloWriter].err ELSE returned
    /\ UNCHANGED <<calls, dequeued, fired>>
SoloSendResp ==
    \E s \in senders, ok \in BOOLEAN :
        /\ sendBatch_Resp(s, ok)
        /\ owed' = IF ok THEN owed ELSE ReqOf(<<"send", s.seq>>)
        /\ UNCHANGED <<expected, returned, calls, dequeued, fired>>

SoloNext ==
    \/ SoloNew
    \/ SoloWriteCall
    \/ SoloWriteSend
    \/ SoloWriteCheck
    \/ SoloWriteLoad
    \/ SoloWriteClear
    \/ SoloWriteReturn
    \/ putBatch_Recv /\ NoHistory
    \/ putBatch_Tick /\ NoHistory
    \/ sendBatch_Idle /\ NoHistory
    \/ SendPut /\ NoHistory
    \/ SoloSendResp

SoloSpec == Init /\ [][SoloNext]_vars

(***************************************************************************)
(* The fair specification: one goroutine calls Write on a hook that        *)
(* batches, and the goroutines of the hook are scheduled fairly.           *)
(***************************************************************************)
LiveWriteCall ==
    \E len \in MsgLens : Write_Call(SoloWriter, len, MaxLiveWrites) /\ NoHistory
LiveWriteReturn == Write_Return(SoloWriter) /\ NoHistory

LiveNext ==
    \/ SoloNew
    \/ LiveWriteCall
    \/ SoloWriteSend
    \/ SoloWriteCheck
    \/ SoloWriteLoad
    \/ SoloWriteClear
    \/ LiveWriteReturn
    \/ putBatch_Recv /\ NoHistory
    \/ putBatch_Tick /\ NoHistory
    \/ sendBatch_Idle /\ NoHistory
    \/ SendPut /\ NoHistory
    \/ SendResp /\ NoHistory

LiveSpec == Init /\ [][LiveNext]_vars /\ Fairness

(***************************************************************************)
(* One goroutine calls Write on a hook that batches, often enough to fill  *)
(* a batch; the events that putBatch takes from the queue are recorded.    *)
(***************************************************************************)
ErrorHistory == UNCHANGED <<owed, expected, returned, calls>>

BatchWriteCall ==
    \E len \in MsgLens : Write_Call(SoloWriter, len, MaxBatchWrites) /\ NoHistory
BatchWriteSend == Write_Send(SoloWriter) /\ NoHistory
BatchWriteCheck == Write_Check(SoloWriter) /\ NoHistory
BatchWriteLoad == Write_Load(SoloWriter) /\ NoHistory
BatchWriteClear == Write_Clear(SoloWriter) /\ NoHistory
BatchRecv ==
    /\ putBatch_Recv
    /\ dequeued' = Append(dequeued, Head(ch))
    /\ ErrorHistory
    /\ UNCHANGED fired

BatchNext ==
    \/ SoloNew
    \/ BatchWriteCall
    \/ BatchWriteSend
    \/ BatchWriteCheck
    \/ BatchWriteLoad
    \/ BatchWriteClear
    \/ LiveWriteReturn
    \/ BatchRecv
    \/ putBatch_Tick /\ NoHistory
    \/ sendBatch_Idle /\ NoHistory
    \/ SendPut /\ NoHistory
    \/ SendResp /\ NoHistory

BatchSpec == Init /\ [][BatchNext]_vars

(***************************************************************************)
(* logrus calls Fire, one call after the other, with entries of every      *)
(* level, on a hook of either mode.                                        *)
(***************************************************************************)
FireHistory == UNCHANGED <<owed, expected, returned, calls, dequeued>>

FireCall ==
    \E level \in AllLevels, parses \in BOOLEAN, len \in MsgLens :
        Fire_Call(SoloWriter, level, parses, len, MaxFireWrites) /\ FireHistory
FireReturn == Fire_Return(SoloWriter) /\ FireHistory
FireWriteSend == Write_Send(SoloWriter) /\ NoHistory
FireWriteCheck == Write_Check(SoloWriter) /\ NoHistory
FireWriteLoad == Write_Load(SoloWriter) /\ NoHistory
FireWriteClear == Write_Clear(SoloWriter) /\ NoHistory
FireWritePut == Write_Put(SoloWriter) /\ NoHistory
FireWriteResp == \E ok \in BOOLEAN : Write_Resp(SoloWriter, ok) /\ NoHistory

FireNext ==
    \/ New /\ NoHistory
    \/ FireCall
    \/ FireWriteSend
    \/ FireWriteCheck
    \/ FireWriteLoad
    \/ FireWriteClear
    \/ FireWritePut
    \/ FireWriteResp
    \/ FireReturn
    \/ putBatch_Recv /\ NoHistory
    \/ putBatch_Tick /\ NoHistory
    \/ sendBatch_Idle /\ NoHistory
    \/ SendPut /\ NoHistory
    \/ SendResp /\ NoHistory

FireSpec == Init /\ [][FireNext]_vars

(***************************************************************************)
(* The construction alone, against every state of the service: the group   *)
(* of the hook with any retention, key and tags, a group and a stream      *)
(* whose names start with those of the hook, a stream with or without a    *)
(* sequence token.  The calls to the service are recorded.                 *)
(***************************************************************************)
GroupsBefore ==
    {own \cup other :
        own \in {{}} \cup {{[name |-> GroupName, retentionDays |-> d,
                             kmsKeyID |-> k, tags |-> t]} :
                           d \in RetentionChoices, k \in KmsChoices, t \in TagChoices},
        other \in {{}, {Group(GroupNames[2], "", {})}}}

ServicesBefore ==
    {s \in [groups : GroupsBefore, streams : SUBSET {StreamNames[1], StreamNames[2]},
            token : {0, 1}] :
        /\ s.streams # {} => \E g \in s.groups : g.name = GroupName
        /\ s.token # 0 => StreamName \in s.streams}

NewInit == Unbuilt(ServicesBefore)

NewWithOptions ==
    \E freq \in Durations, days \in RetentionChoices, kms \in KmsChoices,
       tags \in TagChoices, failAt \in FailPoints :
        /\ NewCloudWatchLogsHook(Options(freq, days, kms, tags), failAt)
        /\ calls' = CallsOfNew(Options(freq, days, kms, tags), failAt)
        /\ UNCHANGED <<owed, expected, returned, dequeued, fired>>

NewNext == NewWithOptions

NewSpec == NewInit /\ [][NewNext]_vars

(***************************************************************************)
(* Properties.                                                             *)
(***************************************************************************)
ReqIdx == 1..Len(requests)
InFlight == {i \in ReqIdx : requests[i].status = "inflight"}
ImmediateMode == phase = "ready" /\ ~chMade
BatchedMode == phase = "ready" /\ chMade

BatchWithinLimits(b) ==
    Len(b) <= MaxBatchEvents /\ BatchBytes(b) <= MaxBatchBytes

\* C1: every batch handed to sendBatch or sent in a PutLogEvents request
\* holds at most MaxBatchEvents events and at most MaxBatchBytes bytes,
\* counted as the sum of (message length + 26).
C1_BatchWithinLimits ==
    /\ \A s \in senders : BatchWithinLimits(s.batch)
    /\ \A i \in ReqIdx : requests[i].seq # 0 => BatchWithinLimits(requests[i].events)

\* the token a request must carry: the NextSequenceToken of the most recent
\* successful upload before it, else the token of the stream at construction
TokenDue(i) ==
    LET done == {j \in 1..(i - 1) : requests[j].status = "ok"}
    IN  IF done = {} THEN tokenAtNew
        ELSE requests[CHOOSE j \in done : \A k \in done : k <= j].next

\* C2: every request carries the token returned by the most recent
\* successful upload (the token read at construction when there is none),
\* and no token returned by an upload is carried by two requests that both
\* succeed.
C2_TokenThreaded ==
    /\ \A i \in ReqIdx : requests[i].token = TokenDue(i)
    /\ \A i, j \in ReqIdx :
          (/\ i < j
           /\ requests[i].status = "ok"
           /\ requests[j].status = "ok"
           /\ \E k \in ReqIdx : requests[k].status = "ok"
                                /\ requests[k].next = requests[i].token)
          => requests[i].token # requests[j].token

\* two uploads in a row succeed, the second with the token of the first
C2_Witness ==
    \E i \in ReqIdx :
        /\ i + 1 \in ReqIdx
        /\ requests[i].status = "ok"
        /\ requests[i + 1].status = "ok"
        /\ requests[i + 1].token = requests[i].next
        /\ requests[i].token = tokenAtNew
        /\ tokenAtNew # 0

RequestsWith(e) == {i \in ReqIdx : e.id \in EventIds(requests[i].events)}

\* C3: with no positive batch duration there is no queue and no background
\* task, and every Write call issues exactly one request, which carries
\* exactly the event of that call and is answered before Write returns.
C3_ImmediateUpload ==
    (phase = "ready" /\ logFrequency <= 0) =>
        /\ ~chMade /\ ~pbRunning
        /\ ch = << >> /\ batch = << >> /\ senders = {} /\ idleSenders = 0
        /\ Len(requests) = nWrites - Cardinality({w \in Writers : pc[w] = "lock"})
        /\ \A w \in Writers : pc[w] = "ret" =>
              /\ Cardinality(RequestsWith(ev[w])) = 1
              /\ \A i \in RequestsWith(ev[w]) :
                    /\ requests[i].events = <<ev[w]>>
                    /\ requests[i].status # "inflight"

\* a hook given a negative duration has answered a Write
C3_Witness ==
    /\ phase = "ready" /\ logFrequency < 0
    /\ \E w \in Writers : pc[w] = "ret"
    /\ Len(requests) = 2

\* C4: at most one request is in flight, it is the latest one issued, its
\* issuer holds the mutex, and the stored token is the one it read: no
\* other upload has read or replaced the token since.
C4_Serialized ==
    /\ Cardinality(InFlight) <= 1
    /\ \A i \in InFlight :
          /\ i = Len(requests)
          /\ mutex = requests[i].by
          /\ nextSequenceToken = requests[i].token

\* a request is in flight while another upload waits for the mutex
C4_Witness ==
    /\ InFlight # {}
    /\ \/ \E w \in Writers : pc[w] = "lock"
       \/ \E s \in senders : s.pc = "lock"

\* C5: batches are sent in the order in which putBatch assembled them.
C5_InOrder ==
    \A i, j \in ReqIdx : i < j => requests[i].seq <= requests[j].seq

\* C6: a Write call that begins after an upload has failed returns the
\* error of the most recent failed upload, and a Write call returns an
\* error only when an upload has failed since the last error was returned.
C6_ErrorToNextWrite ==
    pc[SoloWriter] = "ret" =>
        /\ expected # 0 => res[SoloWriter].err >= expected
        /\ res[SoloWriter].err # 0 => res[SoloWriter].err > returned

\* C7: every event is in at most one request, whether it succeeds or fails.
C7_NoRetry ==
    /\ \A i \in ReqIdx : Cardinality(EventIds(requests[i].events)) = Len(requests[i].events)
    /\ \A i, j \in ReqIdx :
          i # j => EventIds(requests[i].events) \cap EventIds(requests[j].events) = {}

\* a batch upload has failed and a later batch has been sent
C7_Witness ==
    \E i, j \in ReqIdx :
        /\ i < j
        /\ requests[i].seq # 0
        /\ requests[i].status = "failed"
        /\ requests[j].status = "ok"

C8_State ==
    ImmediateMode =>
        /\ err = 0
        /\ \A i \in ReqIdx :
              (i + 1 \in ReqIdx /\ requests[i].status = "failed")
              => requests[i + 1].token = requests[i].token
        /\ \A w \in Writers : pc[w] = "ret" =>
              \A i \in RequestsWith(ev[w]) :
                  /\ res[w].err # 0 <=> requests[i].status = "failed"
                  /\ res[w].err = 0 <=> requests[i].status = "ok"

C8_Step ==
    \A w \in Writers :
        (pc[w] = "resp" /\ pc'[w] = "ret" /\ res'[w].err # 0)
        => /\ res'[w].n = 0
           /\ nextSequenceToken' = nextSequenceToken
           /\ err' = 0

\* C8: in immediate mode a failed upload makes that Write return the error
\* with a count of 0, leaves the stored token as it was and caches no
\* error; the next request carries the same token and the result of a
\* Write is that of its own upload.
C8_ImmediateFailure == []C8_State /\ [][C8_Step]_vars

\* an upload failed with a token that is not nil and the next one succeeded
C8_Witness ==
    /\ ImmediateMode
    /\ \E i \in ReqIdx :
          /\ i + 1 \in ReqIdx
          /\ requests[i].status = "failed"
          /\ requests[i].token # 0
          /\ requests[i + 1].status = "ok"
    /\ \E w \in Writers : pc[w] = "ret" /\ res[w].err = 0

C10_Step ==
    \A w \in Writers : pc[w] = "send" =>
        /\ Len(ch) = QueueCap =>
              /\ pc'[w] = "send" /\ ev'[w] = ev[w] /\ res'[w] = res[w]
              /\ ch' # ch => ch' = Tail(ch)
        /\ pc'[w] # "send" => pc'[w] = "check" /\ ch' = Append(ch, ev[w])

\* C10: the queue never holds more than QueueCap events; a Write that finds
\* it full stays at its send, neither dropping its event nor returning,
\* until putBatch takes an event; when it proceeds its event is queued.
C10_BoundedQueue == [](Len(ch) <= QueueCap) /\ [][C10_Step]_vars

\* a Write is blocked on the full queue
C10_Witness ==
    /\ Len(ch) = QueueCap
    /\ \E w \in Writers : pc[w] = "send"

Queued(id) == id \in EventIds(ch) \cup EventIds(batch)
Requested(id) == \E i \in ReqIdx : id \in EventIds(requests[i].events)

\* C9: under fair scheduling every event that is on the queue or in the
\* batch being assembled is eventually part of a PutLogEvents request.
C9_EventuallySent == \A id \in 1..MaxLiveWrites : Queued(id) ~> Requested(id)

\* an event that went through the queue has been sent while a later one is
\* still queued
C9_Witness ==
    /\ \E i \in ReqIdx : requests[i].seq # 0
    /\ ch # << >>

(***************************************************************************)
(* Properties of the construction.                                         *)
(***************************************************************************)
Issued(cs, op) == \E i \in 1..Len(cs) : cs[i].op = op
Answered(cs, op) == \E i \in 1..Len(cs) : cs[i].op = op /\ cs[i].ok
\* the first call of an operation was answered without an error
Found(cs, op) ==
    \E i \in 1..Len(cs) :
        /\ cs[i].op = op /\ cs[i].ok
        /\ \A j \in 1..(i - 1) : cs[j].op # op
HasGroup(s, name) == \E g \in s.groups : g.name = name
OtherGroups(s) == {g \in s.groups : g.name # GroupName}

\* C11: NewCloudWatchLogsHook calls CreateLogGroup exactly when its lookup
\* of the groups was answered and no group of exactly the hook's group name
\* exists, and calls CreateLogStream exactly when its lookup of the streams
\* was answered and no stream of exactly the hook's stream name exists in
\* the group; a group or a stream whose name only starts with the hook's
\* name does not count.  A call that is answered creates the group or the
\* stream; a group that exists is left as it is, with its retention, its
\* key and its tags, whatever options the hook was given.
C11_Step ==
    phase = "unbuilt" /\ phase' # "unbuilt" =>
        /\ Issued(calls', "CreateLogGroup")
              <=> Found(calls', "DescribeLogGroups") /\ ~HasGroup(svc, GroupName)
        /\ Answered(calls', "CreateLogGroup") => HasGroup(svc', GroupName)
        /\ HasGroup(svc, GroupName) => svc'.groups = svc.groups
        /\ OtherGroups(svc') = OtherGroups(svc)
        /\ Issued(calls', "CreateLogStream")
              <=> Found(calls', "DescribeLogStreams") /\ StreamName \notin svc.streams
        /\ Answered(calls', "CreateLogStream") => StreamName \in svc'.streams
        /\ svc'.streams \ {StreamName} = svc.streams \ {StreamName}
C11_CreatesWhenAbsent == [][C11_Step]_vars

\* the group was created although a group whose name starts with the hook's
\* group name existed
C11_Witness ==
    /\ phase = "ready"
    /\ Answered(calls, "CreateLogGroup")
    /\ HasGroup(svc, GroupNames[2])
    /\ options.tags # {}

\* C12: when NewCloudWatchLogsHook has created the group, the group has the
\* retention, the KMS key and the tags that the options gave the hook.
C12_GroupAsOptions ==
    phase # "unbuilt" /\ Answered(calls, "CreateLogGroup") =>
        \E g \in svc.groups :
            /\ g.name = GroupName
            /\ g.retentionDays = options.retentionDays
            /\ g.kmsKeyID = options.kmsKeyID
            /\ g.tags = options.tags

(***************************************************************************)
(* Properties of the assembly of batches.                                  *)
(***************************************************************************)
\* the n-th batch handed to sendBatch with events in it: held by its
\* goroutine, or in the request the goroutine has issued
Handed(n) ==
    IF \E s \in senders : s.seq = n
    THEN (CHOOSE s \in senders : s.seq = n).batch
    ELSE IF \E i \in ReqIdx : requests[i].seq = n
    THEN requests[CHOOSE i \in ReqIdx : requests[i].seq = n].events
    ELSE << >>

RECURSIVE HandedUpTo(_)
HandedUpTo(n) == IF n = 0 THEN << >> ELSE HandedUpTo(n - 1) \o Handed(n)

C13_State == HandedUpTo(nAssembled) \o batch = dequeued

C13_Step ==
    ch # << >> /\ dequeued' # dequeued
        /\ (Len(batch) = MaxBatchEvents
              \/ size + Head(ch).len + EventOverhead > MaxBatchBytes) =>
            /\ batch' = <<Head(ch)>>
            /\ batch # << >> =>
                  /\ nAssembled' = nAssembled + 1
                  /\ \E s \in senders' : s.seq = nAssembled' /\ s.batch = batch

\* C13: the batches handed to sendBatch, in the order of their assembly,
\* followed by the batch being assembled, are the events taken from the
\* queue, each once and in the order they were taken; the event that forces
\* a flush (the batch holds MaxBatchEvents events, or the event would take
\* it over MaxBatchBytes) is not in the batch that is flushed and is the
\* first event of the next batch.
C13_NothingLostOrReordered == [](C13_State) /\ [][C13_Step]_vars

\* a full batch was flushed and the event that forced the flush starts the
\* next batch
C13_Witness ==
    /\ nAssembled > 0
    /\ Len(Handed(nAssembled)) = MaxBatchEvents
    /\ Len(batch) = 1
    /\ dequeued[Len(dequeued)] = batch[1]
    /\ Len(dequeued) = Len(HandedUpTo(nAssembled)) + 1

\* C14: once NewCloudWatchLogsHook has succeeded, and until an upload
\* succeeds, the token stored in the hook is the upload sequence token the
\* service holds for the stream (that of the stream found, or the one read
\* back after the stream was created), and the first request carries it.
C14_TokenOfStream ==
    phase = "ready" =>
        /\ (\A i \in ReqIdx : requests[i].status # "ok") =>
              /\ nextSequenceToken = svc.token
              /\ svc.token = tokenAtNew
        /\ requests # << >> => requests[1].token = tokenAtNew

\* the first upload of a hook whose stream existed, with the stream's token
C14_Witness ==
    /\ phase = "ready"
    /\ Len(requests) = 1
    /\ requests[1].status = "inflight"
    /\ requests[1].token = svc.token
    /\ svc.token # 0

\* C15: no PutLogEvents request carries zero events: a sendBatch goroutine
\* that was handed an empty batch, by a tick or by a flush forced while the
\* batch was empty, issues no request and changes neither the sequence token
\* nor the cached error.
C15_Step ==
    idleSenders' < idleSenders =>
        /\ requests' = requests
        /\ nextSequenceToken' = nextSequenceToken
        /\ err' = err
C15_NoEmptyRequest ==
    /\ [](\A i \in ReqIdx : requests[i].events # << >>)
    /\ [][C15_Step]_vars

\* the first message was too large for a batch: the empty batch was handed
\* to sendBatch, whose goroutine has run, and nothing was requested
C15_Witness ==
    /\ BatchedMode
    /\ Len(batch) = 1
    /\ MessageSize(batch[1]) > MaxBatchBytes
    /\ nAssembled = 0
    /\ idleSenders = 0
    /\ requests = << >>

(***************************************************************************)
(* Properties of concurrent calls of Write on a hook that batches.         *)
(***************************************************************************)
\* the goroutines that are about to return the upload error e
Returning(e) == {w \in Writers : pc[w] \in {"clear", "ret"} /\ lastErr[w] = e}

\* C16: whatever the interleaving of the Write calls with each other and
\* with sendBatch, no Write call dereferences the cached error after another
\* call has cleared it, and no cached upload error is returned by two Write
\* calls.
C16_ErrorHandedOnce ==
    /\ \A w \in Writers : pc[w] # "panic"
    /\ \A i \in ReqIdx : Cardinality(Returning(i)) <= 1

(***************************************************************************)
(* Properties of the queueing of events by Write.                          *)
(***************************************************************************)
RECURSIVE CountIn(_, _)
CountIn(id, b) ==
    IF b = << >> THEN 0
    ELSE (IF Head(b).id = id THEN 1 ELSE 0) + CountIn(id, Tail(b))

RECURSIVE CountInAll(_, _)
CountInAll(id, bs) ==
    IF bs = {} THEN 0
    ELSE LET b == CHOOSE x \in bs : TRUE
         IN  CountIn(id, b.batch) + CountInAll(id, bs \ {b})

RECURSIVE CountInRequests(_, _)
CountInRequests(id, n) ==
    IF n = 0 THEN 0
    ELSE CountIn(id, requests[n].events) + CountInRequests(id, n - 1)

\* how often the event is on its way: on the queue, in the batch being
\* assembled, in a batch handed to sendBatch and not yet requested, or in a
\* request
Occurrences(id) ==
    CountIn(id, ch) + CountIn(id, batch)
        + CountInAll(id, {s \in senders : s.pc = "lock"})
        + CountInRequests(id, Len(requests))

\* the events of the calls that have got past line 180
SentIds == (1..nWrites) \ {ev[w].id : w \in {v \in Writers : pc[v] = "send"}}

ReturnsCachedError(id) ==
    \E w \in Writers :
        pc[w] = "ret" /\ res[w].err # 0 /\ res[w].n = 0 /\ ev[w].id = id

\* C17: on a hook that batches, the event of every Write call that has got
\* past its send is on its way to the service exactly once, the event of a
\* call that returns the cached error with byte count 0 included: it was
\* queued before the error is returned, and under fair scheduling it is
\* part of a request later on.
C17_QueuedOnce ==
    /\ [](BatchedMode => \A id \in SentIds : Occurrences(id) = 1)
    /\ \A id \in 1..MaxLiveWrites : ReturnsCachedError(id) ~> Requested(id)

\* a call is about to return the cached error with byte count 0 while its
\* own event is on the queue
C17_Witness ==
    \E w \in Writers :
        /\ ReturnsCachedError(ev[w].id)
        /\ pc[w] = "ret"
        /\ CountIn(ev[w].id, ch) = 1

(***************************************************************************)
(* Properties of Fire.                                                     *)
(***************************************************************************)
\* C18: a call of Fire with an entry that formats, of a level that Levels
\* returns, has passed the entry to Write exactly once when it returns, and
\* returns the error of Write; a call with an entry of any other level has
\* written nothing and returns no error.
C18_FireWritesLevels ==
    fired.done /\ fired.parsed =>
        IF fired.level \in Levels
        THEN fired.writes = 1
        ELSE fired.writes = 0 /\ fired.err = 0

(***************************************************************************)
(* Properties of the background task.                                      *)
(***************************************************************************)
\* C19: a call of NewCloudWatchLogsHook with a positive batch duration that
\* returns an error leaves no putBatch goroutine running; a call that
\* succeeds with a positive batch duration leaves exactly one, and a hook
\* without a positive batch duration has none.
C19_TaskOnlyWithHook ==
    /\ phase = "failed" => ~pbRunning
    /\ phase = "ready" => (pbRunning <=> Batching(logFrequency))

=============================================================================
